---- MODULE Spec2Model ----
(***************************************************************************)
(* Czech diacritics restoration for the Draci doupe name databases.        *)
(*                                                                         *)
(* Two restorers are modelled: CzechDiacritizer (src/diacritizer.py) and   *)
(* DiacriticsRestorer (src/diacritics/restore_diacritics.py), and the      *)
(* encoding detection and decoding of a DBF file by the converter          *)
(* (src/convert_drd_names.py).                                             *)
(*                                                                         *)
(* A Python str is a sequence of characters.  The module is plain ASCII,   *)
(* so the accented letters carry names: "ur" is u with ring above          *)
(* (U+016F), "ua" is u with acute (U+00FA), "UR" and "UA" their capitals.  *)
(* " " is a whitespace character, which is also an uncased character.      *)
(***************************************************************************)
EXTENDS Integers, Sequences, FiniteSets, TLC

VARIABLES
    instance,         \* which class the program constructed
    dict_file,        \* the word list on disk: a sequence of lines
    prefer_genpl_uu,  \* CzechDiacritizer.prefer_genpl_uu
    dictionary,       \* CzechDiacritizer._dictionary (is_none: it is None)
    stats,            \* CzechDiacritizer.stats
    overrides,        \* DiacriticsRestorer.overrides
    rdictionary,      \* DiacriticsRestorer.dictionary
    loaded,           \* DiacriticsRestorer._loaded
    pending,          \* the calls the program has still to make, in order
    call,             \* the last call: its arguments and what it returned
    hist,             \* history: calls made, direct diacritize_token calls,
                      \* tokens restored, tokens returned changed, reads of
                      \* the word list
    conv,             \* the converter: the DBF file, what chardet says of
                      \* it, the encoding forced or detected, the frame
    fault             \* <<n>> when reading the word list raises after n
                      \* lines, <<>> when it does not raise

vars == <<instance, dict_file, prefer_genpl_uu, dictionary, stats,
          overrides, rdictionary, loaded, pending, call, hist, conv,
          fault>>

-----------------------------------------------------------------------------
(* Bounds of the model.                                                    *)

MaxTokenLen == 2   \* the longest token of a single call
MaxLines == 3      \* the most lines of a word list
MaxRows == 2       \* the most rows of an overrides file
MaxValues == 2     \* the most values of a column
MaxCalls == 2      \* the most calls of a run that makes several
MaxRecords == 3    \* the most records of a DBF file
sample_size == 1   \* detect_dbf_encoding(sample_size=100), scaled down
MaxTextLen == 3    \* the longest text of restore_text_diacritics
MaxFiles == 2      \* the most DBF files of an archive

-----------------------------------------------------------------------------
(* Characters and the str methods the code uses.                           *)

LowerChars == {"k", "a", "u", "ur", "ua"}
UpperChars == {"K", "A", "U", "UR", "UA"}
SpaceChars == {" "}

CharLower(c) ==
    CASE c = "K" -> "k" [] c = "A" -> "a" [] c = "U" -> "u"
      [] c = "UR" -> "ur" [] c = "UA" -> "ua" [] OTHER -> c

CharUpper(c) ==
    CASE c = "k" -> "K" [] c = "a" -> "A" [] c = "u" -> "U"
      [] c = "ur" -> "UR" [] c = "ua" -> "UA" [] OTHER -> c

\* NFD decomposition followed by the removal of the combining marks (Mn).
CharStrip(c) ==
    CASE c = "ur" -> "u" [] c = "ua" -> "u"
      [] c = "UR" -> "U" [] c = "UA" -> "U" [] OTHER -> c

CharIsUpper(c) == c \in UpperChars
CharIsLower(c) == c \in LowerChars
CharIsCased(c) == CharIsUpper(c) \/ CharIsLower(c)

Min(a, b) == IF a <= b THEN a ELSE b
Max(a, b) == IF a >= b THEN a ELSE b
Abs(a) == IF a >= 0 THEN a ELSE -a

\* str.lower(), str.upper()
Lower(s) == [i \in 1..Len(s) |-> CharLower(s[i])]
Upper(s) == [i \in 1..Len(s) |-> CharUpper(s[i])]

\* str.isupper(): some cased character and no lowercase one.
IsUpper(s) ==
    /\ \E i \in 1..Len(s) : CharIsCased(s[i])
    /\ \A i \in 1..Len(s) : ~CharIsLower(s[i])

\* str.islower()
IsLower(s) ==
    /\ \E i \in 1..Len(s) : CharIsCased(s[i])
    /\ \A i \in 1..Len(s) : ~CharIsUpper(s[i])

\* str.istitle(): capitals only after uncased characters, small letters only
\* after cased ones, and some cased character.
IsTitle(s) ==
    /\ \E i \in 1..Len(s) : CharIsCased(s[i])
    /\ \A i \in 1..Len(s) :
          /\ CharIsUpper(s[i]) => (i = 1 \/ ~CharIsCased(s[i - 1]))
          /\ CharIsLower(s[i]) => (i > 1 /\ CharIsCased(s[i - 1]))

\* str.capitalize()
Capitalize(s) ==
    [i \in 1..Len(s) |-> IF i = 1 THEN CharUpper(s[i]) ELSE CharLower(s[i])]

\* str.strip()
Strip(s) ==
    LET keep == {i \in 1..Len(s) : s[i] \notin SpaceChars}
    IN  IF keep = {} THEN <<>>
        ELSE LET lo == CHOOSE i \in keep : \A j \in keep : i <= j
                 hi == CHOOSE i \in keep : \A j \in keep : i >= j
             IN  SubSeq(s, lo, hi)

\* str.endswith(c) for a single character c
EndsWith(s, c) == Len(s) > 0 /\ s[Len(s)] = c

\* The length of the longest common suffix of x and y (the loops of
\* _score_candidate, which stop at the first mismatch from the end).
CommonSuffixLen(x, y) ==
    LET m == Min(Len(x), Len(y))
        ok == {n \in 0..m :
                 \A j \in 1..n : x[Len(x) + 1 - j] = y[Len(y) + 1 - j]}
    IN  CHOOSE n \in ok : \A k \in ok : k <= n

\* All sequences over S of length at most n.
SeqsUpTo(S, n) == UNION {[1..k -> S] : k \in 0..n}

\* The orders in which a set can be enumerated.
Enumerations(S) ==
    {f \in [1..Cardinality(S) -> S] : \A x \in S : \E i \in DOMAIN f : f[i] = x}

-----------------------------------------------------------------------------
(* CzechDiacritizer: the helpers.                                          *)

\* Program constant: the suffix length that counts as a good match.
GoodSuffixLen == 3

\* CzechDiacritizer._strip_diacritics
_strip_diacritics(s) == [i \in 1..Len(s) |-> CharStrip(s[i])]

\* One line of the word list is the sequence of its tab-separated fields.
\* line.strip() removes the whitespace at both ends, tabs included, so the
\* whitespace-only fields at both ends go with their tabs.
StripLine(fields) ==
    LET keep == {i \in 1..Len(fields) : Strip(fields[i]) # <<>>}
    IN  IF keep = {} THEN <<>>
        ELSE LET lo == CHOOSE i \in keep : \A j \in keep : i <= j
                 hi == CHOOSE i \in keep : \A j \in keep : i >= j
             IN  SubSeq(fields, lo, hi)

\* The body of the loop over the lines in _load_dictionary: groups is the
\* dictionary so far, a function from base forms to sets of word forms.
AddLine(groups, rawline) ==
    LET parts == StripLine(rawline)
    IN  IF Len(parts) < 2 THEN groups
        ELSE LET word_form == Strip(parts[1])
                 base_form == Strip(parts[2])
                 old == IF base_form \in DOMAIN groups
                        THEN groups[base_form] ELSE {}
             IN  (base_form :> (old \cup {word_form})) @@ groups

RECURSIVE ParseLines(_, _)
ParseLines(file, groups) ==
    IF file = <<>> THEN groups
    ELSE ParseLines(Tail(file), AddLine(groups, Head(file)))

\* _load_dictionary reading the word list again when the dictionary it has
\* is empty.
Loads_WhenEmpty(d, needed) == needed /\ (d.is_none \/ d.groups = <<>>)

\* Whether a call reads the word list: it reaches _load_dictionary and
\* self._dictionary is None.
Loads(d, needed) == needed /\ d.is_none

\* CzechDiacritizer._load_dictionary: the cached dictionary when there is
\* one, and otherwise the parsed word list, or the empty dictionary when
\* reading the list raised.
_load_dictionary(d, file, failed_at) ==
    IF ~Loads(d, TRUE) THEN d
    ELSE IF failed_at # <<>> THEN [is_none |-> FALSE, groups |-> <<>>]
    ELSE [is_none |-> FALSE, groups |-> ParseLines(file, <<>>)]

\* CzechDiacritizer._find_candidates, before the de-duplicating
\* list(set(candidates)): the forms of every group that holds a form equal to
\* the token without regard to case, and if there is none, of every group
\* that holds a form with the token's diacritic-stripped lowercase form.
_find_candidates(groups, token) ==
    LET exact == UNION {groups[b] : b \in {g \in DOMAIN groups :
                     \E variant \in groups[g] : Lower(token) = Lower(variant)}}
        token_stripped == _strip_diacritics(Lower(token))
        loose == UNION {groups[b] : b \in {g \in DOMAIN groups :
                     \E variant \in groups[g] :
                        _strip_diacritics(Lower(variant)) = token_stripped}}
    IN  IF exact # {} THEN exact ELSE loose

\* The PAD2 preference applied in every column.
Pad2Score_AnyColumn(candidate, is_pad2, prefer) ==
    IF prefer
    THEN IF EndsWith(candidate, "ur") THEN 0
         ELSE IF EndsWith(candidate, "u") THEN 1
         ELSE 0
    ELSE 0

\* The second criterion of _score_candidate: the PAD2 preference.
Pad2Score(candidate, is_pad2, prefer) ==
    IF is_pad2 /\ prefer
    THEN IF EndsWith(candidate, "ur") THEN 0
         ELSE IF EndsWith(candidate, "u") THEN 1
         ELSE 0
    ELSE 0

\* _score_candidate without its third criterion, the exact suffix.
_score_candidate_NoExactSuffix(original, candidate, is_pad2, prefer) ==
    LET orig_stripped == _strip_diacritics(Lower(original))
        cand_stripped == _strip_diacritics(Lower(candidate))
        common_suffix_len == CommonSuffixLen(orig_stripped, cand_stripped)
        suffix_match_score ==
            IF common_suffix_len >= Min(GoodSuffixLen, Len(orig_stripped))
            THEN 0 ELSE 1
        length_score == Abs(Len(original) - Len(candidate))
    IN  <<suffix_match_score, Pad2Score(candidate, is_pad2, prefer),
          0, length_score>>

\* CzechDiacritizer._score_candidate
_score_candidate(original, candidate, is_pad2, prefer) ==
    LET orig_stripped == _strip_diacritics(Lower(original))
        cand_stripped == _strip_diacritics(Lower(candidate))
        common_suffix_len == CommonSuffixLen(orig_stripped, cand_stripped)
        suffix_match_score ==
            IF common_suffix_len >= Min(GoodSuffixLen, Len(orig_stripped))
            THEN 0 ELSE 1
        exact_suffix_len == CommonSuffixLen(Lower(original), Lower(candidate))
        exact_suffix_score == Max(0, Len(original) - exact_suffix_len)
        length_score == Abs(Len(original) - Len(candidate))
    IN  <<suffix_match_score, Pad2Score(candidate, is_pad2, prefer),
          exact_suffix_score, length_score>>

\* The order of Python tuples.
TupleLess(s, t) ==
    \E i \in 1..Len(s) : s[i] < t[i] /\ \A j \in 1..(i - 1) : s[j] = t[j]

\* The score of every candidate of the list, in the order of the list (the
\* loop that builds scored_candidates in diacritize_token).
RECURSIVE ScoreAll(_, _, _, _)
ScoreAll(listed, original, is_pad2, prefer) ==
    IF listed = <<>> THEN <<>>
    ELSE <<_score_candidate(original, Head(listed), is_pad2, prefer)>>
         \o ScoreAll(Tail(listed), original, is_pad2, prefer)

\* Without element i.
Without(seq, i) ==
    [k \in 1..(Len(seq) - 1) |-> IF k < i THEN seq[k] ELSE seq[k + 1]]

\* list.sort(key = score) is stable: it orders by ascending score and
\* candidates of equal score keep the order they had.
RECURSIVE SortByKeys(_, _)
SortByKeys(listed, keys) ==
    IF listed = <<>> THEN <<>>
    ELSE LET first == CHOOSE i \in 1..Len(listed) :
                        /\ \A j \in 1..Len(listed) : ~TupleLess(keys[j], keys[i])
                        /\ \A j \in 1..(i - 1) : TupleLess(keys[i], keys[j])
         IN  <<listed[first]>>
             \o SortByKeys(Without(listed, first), Without(keys, first))

\* The candidates left in the order of enumeration, not sorted.
SortByScore_Unsorted(listed, original, is_pad2, prefer) == listed

\* scored_candidates.sort(key=lambda x: x[1]) in diacritize_token.
SortByScore(listed, original, is_pad2, prefer) ==
    SortByKeys(listed, ScoreAll(listed, original, is_pad2, prefer))

\* CzechDiacritizer._preserve_case
_preserve_case(original, candidate) ==
    IF original = <<>> \/ candidate = <<>> THEN candidate
    ELSE [i \in 1..Len(candidate) |->
            IF i > Len(original) THEN candidate[i]
            ELSE IF CharIsUpper(original[i]) THEN CharUpper(candidate[i])
            ELSE IF CharIsLower(original[i]) THEN CharLower(candidate[i])
            ELSE candidate[i]]

\* column_name.upper() == 'PAD2'
ColumnUpper(column_name) ==
    CASE column_name = "pad2" -> "PAD2" [] OTHER -> column_name

IsPad2(column_name) == ColumnUpper(column_name) = "PAD2"

-----------------------------------------------------------------------------
(* The inputs of the model.                                                *)

Str(s) == [kind |-> "str", s |-> s]
\* A value of a column that is not a str (None, a number).
NotAStr == [kind |-> "other", s |-> <<>>]

\* The calls a program makes.
TokenReq(token, column_name) ==
    [op |-> "diacritize_token", token |-> token, column |-> column_name,
     values |-> <<>>, value |-> <<>>]
ColumnReq(values, column_name) ==
    [op |-> "diacritize_column", token |-> <<>>, column |-> column_name,
     values |-> values, value |-> <<>>]
RestoreReq(word) ==
    [op |-> "restore_word_diacritics", token |-> word, column |-> "",
     values |-> <<>>, value |-> <<>>]
AddOverrideReq(stripped_word, diacritized_word) ==
    [op |-> "add_override", token |-> stripped_word, column |-> "",
     values |-> <<>>, value |-> diacritized_word]

RestoreTextReq(text) ==
    [op |-> "restore_text_diacritics", token |-> text, column |-> "",
     values |-> <<>>, value |-> <<>>]

ku == <<"k", "u">>
kur == <<"k", "ur">>
kua == <<"k", "ua">>
Kur == <<"K", "ur">>
Kua == <<"K", "ua">>
KU == <<"K", "U">>
aku == <<"a", "k", "u">>
ka == <<"k", "a">>
kk == <<"k", "k">>
u == <<"u">>
uring == <<"ur">>
uu == <<"u", "u">>
uau == <<"ua", "u">>
auau == <<"a", "ua", "u">>
auaur == <<"a", "ua", "ur">>

TokenChars == {"k", "u", "ur", "K", "U", " "}
Tokens == SeqsUpTo(TokenChars, MaxTokenLen)
Columns == {"PAD1", "PAD2"}
ColumnValues == {Str(ku), Str(kk), NotAStr}

\* The lines a word list of CzechDiacritizer is made of:
\* form <TAB> base form.
LinePool ==
    << <<ku, ku>>, <<kur, ku>>, <<kua, ku>>, <<aku, ku>>, <<KU, ku>>,
       <<uring, u>>, <<kur, ka>> >>

\* The lines of LinePool with an index in S, in the order of LinePool.
LinesOf(S) ==
    [k \in 1..Cardinality(S) |->
        LinePool[CHOOSE i \in S : Cardinality({j \in S : j < i}) = k - 1]]

\* The word lists of CzechDiacritizer.  Its dictionary maps a base form to
\* a set of forms, so the order of the lines of the list is immaterial and
\* each list stands for all its rearrangements.
DictFiles ==
    {LinesOf(S) : S \in {T \in SUBSET (1..Len(LinePool)) :
                            Cardinality(T) <= MaxLines}}

\* Lines of a word list that share forms between groups or are malformed:
\* a form of two groups, a form with another ending, a line without a tab,
\* a line whose second field is empty.
OddLinePool ==
    << <<ku, ku>>, <<kur, ka>>, <<ku, ka>>, <<ka, ka>>, <<kur>>,
       <<kur, <<>>, kk>> >>

\* The word lists made of these lines, in every order: the groups of the
\* dictionary are scanned in the order in which the list first names them.
OddFiles ==
    {[i \in 1..Len(f) |-> OddLinePool[f[i]]] :
        f \in SeqsUpTo(1..Len(OddLinePool), MaxLines)}

\* Lines of a word list in which a longer form ends in the letters of a
\* shorter one and is a form of a second group as well.
LongLinePool ==
    << <<uu, uu>>, <<auau, uu>>, <<auau, auau>>, <<auaur, auau>> >>

\* The word lists made of these lines, in the order of the pool.
LongFiles ==
    {[k \in 1..Cardinality(S) |->
         LongLinePool[CHOOSE i \in S : Cardinality({j \in S : j < i}) = k - 1]] :
        S \in SUBSET (1..Len(LongLinePool))}

\* A program that makes one call, with any arguments.
OneCallOfDiacritizer ==
    {<<TokenReq(t, c)>> : t \in Tokens, c \in Columns}
    \cup {<<ColumnReq(v, c)>> :
             v \in SeqsUpTo(ColumnValues, MaxValues), c \in Columns}

\* A program that makes up to MaxCalls calls, on few arguments.
FewCallsOfDiacritizer ==
    SeqsUpTo({TokenReq(ku, "pad2"), TokenReq(<<>>, "PAD1")}
             \cup {ColumnReq(v, c) :
                      v \in {<<Str(ku)>>, <<Str(ku), NotAStr>>},
                      c \in {"PAD1", "PAD2"}},
             MaxCalls)

NoCall ==
    [op |-> "none", token |-> <<>>, column |-> "", listed |-> <<>>,
     result |-> <<>>, values |-> <<>>, results |-> <<>>]

-----------------------------------------------------------------------------
(* The converter: detect_dbf_encoding and convert_dbf_to_dataframe.        *)
(*                                                                         *)
(* A DBF file is a sequence of records, each record one character field, a *)
(* sequence of bytes.  A decoded character is "cz" (one of czech_chars),   *)
(* "mj" (one of mojibake_patterns), " " (whitespace) or "ot" (any other).  *)

\* encodings_to_try of detect_dbf_encoding, before chardet is heard.
encodings_to_try == <<"cp852", "cp1250", "iso-8859-2">>

\* The bytes of the model and what the three code pages make of them:
\* 0x41 is A in all three; 0xE9 is U-acute in cp852, e-acute in the others;
\* 0x81 is u-umlaut in cp852, undefined in cp1250, a control in iso-8859-2;
\* 0xA0 is a-acute in cp852, a no-break space in the others; 0xA4 is the
\* currency sign in all three; 0xC1 is a box drawing in cp852, A-acute in
\* the others.
Bytes == {"x41", "xE9", "x81", "xA0", "xA4", "xC1"}

decode_byte(encoding, b) ==
    CASE b = "x41" -> "ot"
      [] b = "xE9" -> "cz"
      [] b = "x81" -> IF encoding = "cp1250" THEN "invalid" ELSE "ot"
      [] b = "xA0" -> IF encoding = "cp852" THEN "cz" ELSE " "
      [] b = "xA4" -> "mj"
      [] b = "xC1" -> IF encoding = "cp852" THEN "ot" ELSE "cz"

\* The field decodes under the encoding with errors='strict', the default of
\* DBF(...).
Decodable(encoding, field) ==
    \A i \in 1..Len(field) : decode_byte(encoding, field[i]) # "invalid"

decode_strict(encoding, field) ==
    [i \in 1..Len(field) |-> decode_byte(encoding, field[i])]

\* Reading the records raises: the file cannot be opened as a DBF table, or
\* a record does not decode.
Raises(file, encoding, records) ==
    \/ ~file.readable
    \/ \E i \in 1..Len(records) : ~Decodable(encoding, records[i])

\* The records the loop of detect_dbf_encoding works on, and the records
\* its for statement fetches: one more, fetched before record_count is
\* tested.
Sampled(records) == SubSeq(records, 1, Min(Len(records), sample_size))
Fetched(records) == SubSeq(records, 1, Min(Len(records), sample_size + 1))

\* sample_texts: the stripped values that are not empty.
SampleTexts(encoding, records) ==
    LET sampled == Sampled(records)
        texts == [i \in 1..Len(sampled) |->
                     Strip(decode_strict(encoding, sampled[i]))]
        not_empty(t) == t # <<>>
    IN  SelectSeq(texts, not_empty)

\* ' '.join(sample_texts)
RECURSIVE Join(_)
Join(texts) ==
    IF texts = <<>> THEN <<>>
    ELSE IF Len(texts) = 1 THEN texts[1]
    ELSE texts[1] \o <<" ">> \o Join(Tail(texts))

CountOf(text, class) == Cardinality({i \in 1..Len(text) : text[i] = class})

\* score_czech_encoding: the score as the fraction num / den, which is
\* min(1, max(0, 2 * czech_count / total - 3 * mojibake_count / total)).
score_czech_encoding(text_sample) ==
    IF text_sample = <<>> THEN [num |-> 0, den |-> 1]
    ELSE LET czech_count == CountOf(text_sample, "cz")
             mojibake_count == CountOf(text_sample, "mj")
             total_chars == Len(text_sample)
         IN  [num |-> Min(total_chars,
                          Max(0, 2 * czech_count - 3 * mojibake_count)),
              den |-> total_chars]

\* score > best_score
ScoreGreater(a, b) == a.num * b.den > b.num * a.den

\* Another default than cp852.
Fallback_Latin ==
    [encoding |-> "iso-8859-2", score |-> [num |-> 0, den |-> 1],
     method |-> "fallback"]

\* best_encoding, best_score, best_method before the loop.
Fallback ==
    [encoding |-> "cp852", score |-> [num |-> 0, den |-> 1],
     method |-> "fallback"]

\* encodings_to_try after chardet: `chardet` is what chardet.detect says of
\* the raw bytes, "latin" for iso-8859-1 or iso-8859-2, "windows" for a name
\* with cp or windows in it, "other" for any other answer or none.
TriedOrder(file, chardet) ==
    IF ~file.readable THEN encodings_to_try
    ELSE IF chardet = "latin" THEN <<"iso-8859-2">> \o encodings_to_try
    ELSE IF chardet = "windows" THEN <<"cp1250">> \o encodings_to_try
    ELSE encodings_to_try

\* The body of the loop over encodings_to_try.
TryEncoding(file, encoding, best) ==
    IF Raises(file, encoding, Fetched(file.records)) THEN best
    ELSE LET sample_texts == SampleTexts(encoding, file.records)
         IN  IF sample_texts = <<>> THEN best
             ELSE LET score == score_czech_encoding(Join(sample_texts))
                  IN  IF ScoreGreater(score, best.score)
                      THEN [encoding |-> encoding, score |-> score,
                            method |-> "czech_scoring"]
                      ELSE best

\* The loop over encodings_to_try ended by the first candidate that does
\* not decode.
RECURSIVE TryAll_StopsAtFailure(_, _, _)
TryAll_StopsAtFailure(file, tried, best) ==
    IF tried = <<>> THEN best
    ELSE IF Raises(file, Head(tried), Fetched(file.records)) THEN best
    ELSE TryAll_StopsAtFailure(file, Tail(tried),
                               TryEncoding(file, Head(tried), best))

\* The loop over encodings_to_try.
RECURSIVE TryAll(_, _, _)
TryAll(file, tried, best) ==
    IF tried = <<>> THEN best
    ELSE TryAll(file, Tail(tried), TryEncoding(file, Head(tried), best))

\* What detect_dbf_encoding returns.
DetectRun(file, chardet) == TryAll(file, TriedOrder(file, chardet), Fallback)

\* What convert_dbf_to_dataframe does without a MorfFlex dictionary: the
\* frame of the decoded records, or the exception it raises again.
ConvertRun(file, encoding) ==
    IF Raises(file, encoding, file.records)
    THEN [kind |-> "raised", rows |-> <<>>]
    ELSE [kind |-> "frame",
          rows |-> [i \in 1..Len(file.records) |->
                       decode_strict(encoding, file.records[i])]]

NoFrame == [kind |-> "none", rows |-> <<>>]

\* process_dbf_files not called: no archive, nothing returned.
NoRun ==
    [archive |-> <<>>, is_zip |-> TRUE, force_encoding |-> "",
     outcome |-> "none", entries |-> <<>>, summary |-> <<>>,
     temp_dir |-> FALSE]

NoConv ==
    [file |-> [readable |-> FALSE, records |-> <<>>], chardet |-> "other",
     pc |-> "done", best |-> Fallback, frame |-> NoFrame, run |-> NoRun]

\* The body of the loop over sorted(dbf_files) for one file: the entry
\* written to encoding_summary, whether the entry was detected, whether
\* the conversion raised (the entry then gets the error text appended),
\* and whether a sheet was written to the workbook, which an empty frame
\* does not get.
ProcessFile(file, force_encoding, chardet) ==
    LET encoding == IF force_encoding # "" THEN force_encoding
                    ELSE DetectRun(file, chardet).encoding
        df == ConvertRun(file, encoding)
    IN  [encoding |-> encoding,
         detection_method |-> IF force_encoding # "" THEN "manual_override"
                              ELSE DetectRun(file, chardet).method,
         error |-> df.kind = "raised",
         sheet |-> df.kind = "frame" /\ df.rows # <<>>]

\* process_dbf_files from the creation of temp_dir on: the archive is the
\* sequence of its DBF files in the order of their sorted names.  Opening
\* what is not a ZIP archive raises; an archive without DBF files returns
\* the empty summary; leaving the with block of the ExcelWriter saves the
\* workbook, which raises when no sheet was written.  The finally clause
\* removes temp_dir on each of these paths.
ProcessRun(archive, is_zip, force_encoding, chardet) ==
    IF ~is_zip
    THEN [outcome |-> "raised", entries |-> <<>>, summary |-> <<>>,
          temp_dir |-> FALSE]
    ELSE IF archive = <<>>
    THEN [outcome |-> "returned", entries |-> <<>>, summary |-> <<>>,
          temp_dir |-> FALSE]
    ELSE LET entries == [i \in 1..Len(archive) |->
                            ProcessFile(archive[i], force_encoding, chardet)]
         IN  IF \E i \in 1..Len(entries) : entries[i].sheet
             THEN [outcome |-> "returned", entries |-> entries,
                   summary |-> entries, temp_dir |-> FALSE]
             ELSE [outcome |-> "raised", entries |-> entries,
                   summary |-> <<>>, temp_dir |-> FALSE]

\* detect_dbf_encoding(dbf_path)
detect_dbf_encoding ==
    /\ instance = "Converter"
    /\ conv.pc = "detect"
    /\ conv' = [conv EXCEPT !.best = DetectRun(conv.file, conv.chardet),
                            !.pc = "convert"]
    /\ UNCHANGED <<instance, dict_file, prefer_genpl_uu, dictionary, stats,
                   overrides, rdictionary, loaded, pending, call, hist,
                   fault>>

\* convert_dbf_to_dataframe(dbf_path, encoding)
convert_dbf_to_dataframe ==
    /\ instance = "Converter"
    /\ conv.pc = "convert"
    /\ conv' = [conv EXCEPT !.frame = ConvertRun(conv.file,
                                                 conv.best.encoding),
                            !.pc = "done"]
    /\ UNCHANGED <<instance, dict_file, prefer_genpl_uu, dictionary, stats,
                   overrides, rdictionary, loaded, pending, call, hist,
                   fault>>

\* process_dbf_files(zip_path, output_dir, force_encoding)
process_dbf_files ==
    /\ instance = "Converter"
    /\ conv.pc = "process"
    /\ \E r \in {ProcessRun(conv.run.archive, conv.run.is_zip,
                             conv.run.force_encoding, conv.chardet)} :
         conv' = [conv EXCEPT !.run.outcome = r.outcome,
                              !.run.entries = r.entries,
                              !.run.summary = r.summary,
                              !.run.temp_dir = r.temp_dir,
                              !.pc = "done"]
    /\ UNCHANGED <<instance, dict_file, prefer_genpl_uu, dictionary, stats,
                   overrides, rdictionary, loaded, pending, call, hist,
                   fault>>

\* The values of the character field of a record.
FieldPool ==
    {<<"x41">>, <<"xE9">>, <<"x81">>, <<"xA0">>, <<"xA4">>,
     <<"x81", "xC1">>, <<"xC1", "x41">>, <<"xC1", "xE9">>}

DbfFiles ==
    {[readable |-> TRUE, records |-> r] : r \in SeqsUpTo(FieldPool, MaxRecords)}
    \cup {[readable |-> FALSE, records |-> <<>>]}

\* The DBF files of an archive: one that is not a DBF table, one without
\* records, one that cp1250 does not decode, two that all candidates decode.
ArchiveFiles ==
    {[readable |-> FALSE, records |-> <<>>],
     [readable |-> TRUE, records |-> <<>>],
     [readable |-> TRUE, records |-> << <<"x81">> >>],
     [readable |-> TRUE, records |-> << <<"xE9">> >>],
     [readable |-> TRUE, records |-> << <<"xC1", "x41">>, <<"xA0">> >>]}

Archives == SeqsUpTo(ArchiveFiles, MaxFiles)

\* The program detects the encoding of a file and converts the file with
\* it, or converts the file with an encoding it was given, or processes an
\* archive.
InitConverter ==
    /\ instance = "Converter"
    /\ \/ \E file \in DbfFiles, chardet \in {"latin", "windows", "other"} :
            conv = [file |-> file, chardet |-> chardet, pc |-> "detect",
                    best |-> Fallback, frame |-> NoFrame, run |-> NoRun]
       \/ \E file \in DbfFiles, encoding \in {"cp1250", "cp852"} :
            conv = [file |-> file, chardet |-> "other", pc |-> "convert",
                    best |-> [encoding |-> encoding,
                              score |-> [num |-> 1, den |-> 1],
                              method |-> "manual_override"],
                    frame |-> NoFrame, run |-> NoRun]
       \/ \E archive \in Archives, is_zip \in BOOLEAN,
             force_encoding \in {"", "cp1250"},
             chardet \in {"latin", "windows", "other"} :
            /\ (~is_zip => archive = <<>>)
            /\ conv = [NoConv EXCEPT
                         !.chardet = chardet, !.pc = "process",
                         !.run = [NoRun EXCEPT
                                    !.archive = archive,
                                    !.is_zip = is_zip,
                                    !.force_encoding = force_encoding,
                                    !.temp_dir = TRUE]]
    /\ dict_file = <<>>
    /\ fault = <<>>
    /\ prefer_genpl_uu = TRUE
    /\ dictionary = [is_none |-> TRUE, groups |-> <<>>]
    /\ stats = [total_processed |-> 0, changed |-> 0, unchanged |-> 0,
                by_column |-> <<>>]
    /\ overrides = <<>>
    /\ rdictionary = <<>>
    /\ loaded = FALSE
    /\ pending = <<>>
    /\ call = NoCall
    /\ hist = [calls |-> 0, direct |-> 0, tokens |-> 0, changed |-> 0,
            reads |-> 0]

-----------------------------------------------------------------------------
(* CzechDiacritizer: the operations.                                       *)

\* The elements of the enumeration `listed` that are in the set S, in order.
Restrict(listed, S) ==
    LET in_S(x) == x \in S IN SelectSeq(listed, in_S)

\* diacritize_token returning the cleaned token, not the token it was
\* given, when there is no candidate.
TokenRun_ReturnsCleaned(groups, prefer, token, column_name, listed) ==
    IF token = <<>> \/ Strip(token) = <<>>
    THEN [result |-> token, counter |-> "none"]
    ELSE LET clean_token == Strip(token)
             is_pad2 == IsPad2(column_name)
         IN  IF listed = <<>>
             THEN [result |-> clean_token, counter |-> "unchanged"]
             ELSE LET scored_candidates ==
                          SortByScore(listed, clean_token, is_pad2, prefer)
                      best_candidate == scored_candidates[1]
                      result == _preserve_case(clean_token, best_candidate)
                  IN  [result |-> result,
                       counter |-> IF result # clean_token
                                   THEN "changed" ELSE "unchanged"]

\* diacritize_token without its effects: what it returns and which counter
\* it increments, on the loaded dictionary `groups`, with `listed` the order
\* in which list(set(candidates)) enumerates the candidates.
TokenRun(groups, prefer, token, column_name, listed) ==
    IF token = <<>> \/ Strip(token) = <<>>
    THEN [result |-> token, counter |-> "none"]
    ELSE LET clean_token == Strip(token)
             is_pad2 == IsPad2(column_name)
         IN  IF listed = <<>>
             THEN [result |-> token, counter |-> "unchanged"]
             ELSE LET scored_candidates ==
                          SortByScore(listed, clean_token, is_pad2, prefer)
                      best_candidate == scored_candidates[1]
                      result == _preserve_case(clean_token, best_candidate)
                  IN  [result |-> result,
                       counter |-> IF result # clean_token
                                   THEN "changed" ELSE "unchanged"]

\* Whether diacritize_token reaches _find_candidates, which loads the
\* dictionary.
NeedsDictionary(token) == ~(token = <<>> \/ Strip(token) = <<>>)

\* The candidate set of a token on the dictionary `groups`.
CandidatesOf(groups, token) ==
    IF NeedsDictionary(token) THEN _find_candidates(groups, Strip(token)) ELSE {}

Bump(n, yes) == IF yes THEN n + 1 ELSE n

\* The entry of the column added to, not replaced.
SetColumnStats_Accumulate(by_column, column_name, total, column_changes) ==
    IF column_name \in DOMAIN by_column
    THEN (column_name :>
             [total |-> by_column[column_name].total + total,
              changed |-> by_column[column_name].changed + column_changes])
         @@ by_column
    ELSE (column_name :> [total |-> total, changed |-> column_changes])
         @@ by_column

\* The update of stats['by_column'] at the end of diacritize_column.
SetColumnStats(by_column, column_name, total, column_changes) ==
    (column_name :> [total |-> total, changed |-> column_changes])
    @@ by_column

\* The dictionary after the call of _load_dictionary that the call makes
\* when it reaches _find_candidates.
AfterLoad(d, file, failed_at, needed) ==
    IF needed THEN _load_dictionary(d, file, failed_at) ELSE d

\* CzechDiacritizer.diacritize_token(token, column_name)
diacritize_token ==
    /\ instance = "CzechDiacritizer"
    /\ pending # <<>>
    /\ Head(pending).op = "diacritize_token"
    /\ dictionary' = AfterLoad(dictionary, dict_file, fault,
                               NeedsDictionary(Head(pending).token))
    /\ \E token \in {Head(pending).token},
          column_name \in {Head(pending).column} :
         \E candidates \in {CandidatesOf(dictionary'.groups, token)} :
           \E listed \in Enumerations(candidates) :
             \E r \in {TokenRun(dictionary'.groups, prefer_genpl_uu, token,
                                column_name, listed)} :
                 /\ stats' = [stats EXCEPT
                       !.changed = Bump(@, r.counter = "changed"),
                       !.unchanged = Bump(@, r.counter = "unchanged")]
                 /\ call' = [NoCall EXCEPT !.op = "diacritize_token",
                               !.token = token, !.column = column_name,
                               !.listed = listed, !.result = r.result]
                 /\ hist' = [calls |-> hist.calls + 1,
                             direct |-> hist.direct + 1,
                             tokens |-> hist.tokens + 1,
                             changed |-> Bump(hist.changed, r.result # token),
                             reads |-> Bump(hist.reads,
                                 Loads(dictionary, NeedsDictionary(token)))]
    /\ pending' = Tail(pending)
    /\ UNCHANGED <<instance, dict_file, prefer_genpl_uu, overrides,
                   rdictionary, loaded, conv, fault>>

\* The loop of diacritize_column: what each value becomes and the counter
\* its call of diacritize_token increments ("other" for a value that is not
\* a str), with `order` the order in which sets enumerate the forms.
ColumnRun(groups, prefer, values, column_name, order) ==
    [i \in 1..Len(values) |->
        IF values[i].kind = "str"
        THEN LET r == TokenRun(groups, prefer, values[i].s, column_name,
                         Restrict(order, CandidatesOf(groups, values[i].s)))
             IN  [value |-> Str(r.result), counter |-> r.counter]
        ELSE [value |-> values[i], counter |-> "other"]]

\* CzechDiacritizer.diacritize_column(values, column_name)
diacritize_column ==
    /\ instance = "CzechDiacritizer"
    /\ pending # <<>>
    /\ Head(pending).op = "diacritize_column"
    /\ dictionary' = AfterLoad(dictionary, dict_file, fault,
                        \E i \in 1..Len(Head(pending).values) :
                           /\ Head(pending).values[i].kind = "str"
                           /\ NeedsDictionary(Head(pending).values[i].s))
    /\ \E values \in {Head(pending).values},
          column_name \in {Head(pending).column} :
         \E all \in {UNION {CandidatesOf(dictionary'.groups, values[i].s) :
                            i \in {j \in 1..Len(values) :
                                      values[j].kind = "str"}}} :
           \E order \in Enumerations(all) :
             \E run \in {ColumnRun(dictionary'.groups, prefer_genpl_uu,
                                   values, column_name, order)} :
               \E result \in {[i \in 1..Len(values) |-> run[i].value]},
                  column_changes \in {Cardinality(
                      {i \in 1..Len(values) :
                          /\ values[i].kind = "str"
                          /\ run[i].value # values[i]})} :
                 /\ stats' = [stats EXCEPT
                       !.changed = @ + Cardinality(
                           {i \in 1..Len(values) : run[i].counter = "changed"}),
                       !.unchanged = @ + Cardinality(
                           {i \in 1..Len(values) :
                               run[i].counter = "unchanged"}),
                       !.by_column = SetColumnStats(@, column_name,
                                         Len(values), column_changes),
                       !.total_processed = @ + Len(values)]
                 /\ call' = [NoCall EXCEPT !.op = "diacritize_column",
                               !.column = column_name, !.listed = order,
                               !.values = values, !.results = result]
                 /\ hist' = [calls |-> hist.calls + 1,
                             direct |-> hist.direct,
                             tokens |-> hist.tokens + Cardinality(
                                 {i \in 1..Len(values) :
                                     values[i].kind = "str"}),
                             changed |-> hist.changed + column_changes,
                             reads |-> Bump(hist.reads,
                                 Loads(dictionary,
                                       \E i \in 1..Len(values) :
                                          /\ values[i].kind = "str"
                                          /\ NeedsDictionary(values[i].s)))]
    /\ pending' = Tail(pending)
    /\ UNCHANGED <<instance, dict_file, prefer_genpl_uu, overrides,
                   rdictionary, loaded, conv, fault>>

\* CzechDiacritizer.__init__, and the program that uses the instance.
InitDiacritizer ==
    /\ instance = "CzechDiacritizer"
    /\ \/ /\ pending \in OneCallOfDiacritizer
          /\ dict_file \in DictFiles
          /\ prefer_genpl_uu \in BOOLEAN
          /\ fault = <<>>
       \/ /\ pending \in FewCallsOfDiacritizer
          /\ dict_file \in {LinesOf({}), LinesOf({2})}
          /\ prefer_genpl_uu = TRUE
          /\ fault \in {<<>>} \cup {<<n>> : n \in 0..Len(dict_file)}
       \/ /\ pending \in {<<TokenReq(t, c)>> : t \in {ku, kur}, c \in Columns}
          /\ dict_file \in OddFiles
          /\ prefer_genpl_uu = TRUE
          /\ fault = <<>>
       \/ /\ pending \in {<<TokenReq(t, c)>> : t \in {uu, uau}, c \in Columns}
          /\ dict_file \in LongFiles
          /\ prefer_genpl_uu \in BOOLEAN
          /\ fault = <<>>
    /\ dictionary = [is_none |-> TRUE, groups |-> <<>>]
    /\ stats = [total_processed |-> 0, changed |-> 0, unchanged |-> 0,
                by_column |-> <<>>]
    /\ overrides = <<>>
    /\ rdictionary = <<>>
    /\ loaded = FALSE
    /\ call = NoCall
    /\ hist = [calls |-> 0, direct |-> 0, tokens |-> 0, changed |-> 0,
            reads |-> 0]
    /\ conv = NoConv

-----------------------------------------------------------------------------
(* DiacriticsRestorer.                                                     *)

\* strip_diacritics of restore_diacritics.py: NFD, the combining marks
\* removed, NFC.
strip_diacritics(text) == [i \in 1..Len(text) |-> CharStrip(text[i])]

\* The body of the loop over the rows in _load_overrides: a row is
\* <<stripped, diacritized>>.
AddOverrideRow(table, row) ==
    LET stripped == Strip(row[1])
        diacritized == Strip(row[2])
    IN  IF stripped # <<>> /\ diacritized # <<>>
        THEN (Lower(stripped) :> diacritized) @@ table
        ELSE table

\* DiacriticsRestorer._load_overrides
RECURSIVE _load_overrides(_, _)
_load_overrides(rows, table) ==
    IF rows = <<>> THEN table
    ELSE _load_overrides(Tail(rows), AddOverrideRow(table, Head(rows)))

\* The body of the loop over the lines in _load_morfflex_dictionary: entries
\* maps a stripped lowercase form to the list of the forms that have it.
AddWordLine(entries, rawline) ==
    LET parts == StripLine(rawline)
    IN  IF parts = <<>> \/ (parts[1] # <<>> /\ parts[1][1] = "#") THEN entries
        ELSE IF Len(parts) < 2 THEN entries
        ELSE LET word_form == Strip(parts[1])
                 stripped == Lower(strip_diacritics(word_form))
                 old == IF stripped \in DOMAIN entries
                        THEN entries[stripped] ELSE <<>>
             IN  IF word_form = <<>> THEN entries
                 ELSE IF \E i \in 1..Len(old) : old[i] = word_form
                 THEN (stripped :> old) @@ entries
                 ELSE (stripped :> Append(old, word_form)) @@ entries

RECURSIVE ParseWordLines(_, _)
ParseWordLines(file, entries) ==
    IF file = <<>> THEN entries
    ELSE ParseWordLines(Tail(file), AddWordLine(entries, Head(file)))

\* DiacriticsRestorer._load_morfflex_dictionary: the dictionary after it.
\* When reading the list raises, the entries of the lines read so far stay.
_load_morfflex_dictionary(entries, is_loaded, file, failed_at) ==
    IF is_loaded THEN entries
    ELSE IF failed_at = <<>> THEN ParseWordLines(file, entries)
    ELSE ParseWordLines(SubSeq(file, 1, Min(failed_at[1], Len(file))),
                        entries)

\* The case pattern of the original word applied to the restored form, as
\* restore_word_diacritics does on both of its paths.
ApplyCase(original_word, restored) ==
    IF IsUpper(original_word) THEN Upper(restored)
    ELSE IF IsTitle(original_word) THEN Capitalize(restored)
    ELSE restored

\* restore_word_diacritics loading the dictionary before it looks at the
\* overrides.
SkipsDictionary_OnlyBlank(table, word) ==
    \/ word = <<>>
    \/ Strip(word) = <<>>

\* Whether restore_word_diacritics answers from the overrides or returns the
\* word at once, and so does not load the dictionary.
SkipsDictionary(table, word) ==
    \/ word = <<>>
    \/ Strip(word) = <<>>
    \/ strip_diacritics(Lower(word)) \in DOMAIN table

\* What restore_word_diacritics returns, on the overrides `table` and the
\* dictionary `entries` as it is after the load.
RestoreWord(table, entries, word) ==
    IF word = <<>> \/ Strip(word) = <<>> THEN word
    ELSE LET stripped_lower == strip_diacritics(Lower(word))
         IN  IF stripped_lower \in DOMAIN table
             THEN ApplyCase(word, table[stripped_lower])
             ELSE IF stripped_lower \in DOMAIN entries
                     /\ entries[stripped_lower] # <<>>
             THEN ApplyCase(word, entries[stripped_lower][1])
             ELSE word

\* DiacriticsRestorer.restore_word_diacritics(word)
restore_word_diacritics ==
    /\ instance = "DiacriticsRestorer"
    /\ pending # <<>>
    /\ Head(pending).op = "restore_word_diacritics"
    /\ \E word \in {Head(pending).token} :
         \E skip \in {SkipsDictionary(overrides, word)} :
           /\ rdictionary' = IF skip THEN rdictionary
                             ELSE _load_morfflex_dictionary(rdictionary,
                                      loaded, dict_file, fault)
           /\ loaded' = IF skip THEN loaded ELSE TRUE
           /\ \E result \in {RestoreWord(overrides, rdictionary', word)} :
                /\ call' = [NoCall EXCEPT !.op = "restore_word_diacritics",
                              !.token = word, !.result = result]
                /\ hist' = [calls |-> hist.calls + 1,
                            direct |-> hist.direct,
                            tokens |-> hist.tokens + 1,
                            changed |-> Bump(hist.changed, result # word),
                            reads |-> Bump(hist.reads, ~skip /\ ~loaded)]
    /\ pending' = Tail(pending)
    /\ UNCHANGED <<instance, dict_file, prefer_genpl_uu, dictionary, stats,
                   overrides, conv, fault>>

\* DiacriticsRestorer.add_override(stripped_word, diacritized_word)
add_override ==
    /\ instance = "DiacriticsRestorer"
    /\ pending # <<>>
    /\ Head(pending).op = "add_override"
    /\ overrides' = (Lower(Head(pending).token) :> Head(pending).value)
                    @@ overrides
    /\ call' = [NoCall EXCEPT !.op = "add_override",
                  !.token = Head(pending).token,
                  !.result = Head(pending).value]
    /\ hist' = [hist EXCEPT !.calls = @ + 1]
    /\ pending' = Tail(pending)
    /\ UNCHANGED <<instance, dict_file, prefer_genpl_uu, dictionary, stats,
                   rdictionary, loaded, conv, fault>>

\* A character of the class [a-zA-Z...] of czech_word_pattern: every letter
\* of the model is in it, the space and the digit are not.
IsWordChar(c) == c \in LowerChars \cup UpperChars

\* re.finditer(czech_word_pattern, text): the maximal runs of word
\* characters, each as <<start, end>> with text[start..end] the match, in
\* the order of the text.
RECURSIVE WordMatches(_, _)
WordMatches(text, from) ==
    LET starts == {i \in from..Len(text) : IsWordChar(text[i])}
    IN  IF starts = {} THEN <<>>
        ELSE LET start == CHOOSE i \in starts : \A j \in starts : i <= j
                 ends == {e \in start..Len(text) :
                            /\ \A k \in start..e : IsWordChar(text[k])
                            /\ (e = Len(text) \/ ~IsWordChar(text[e + 1]))}
                 end == CHOOSE e \in ends : TRUE
             IN  <<<<start, end>>>> \o WordMatches(text, end + 1)

\* The loop of tokenize_czech_text over the matches, from position
\* last_end + 1 of the text on, and the rest of the text after the last
\* match.
RECURSIVE TokensFrom(_, _, _)
TokensFrom(text, matches, last_end) ==
    IF matches = <<>>
    THEN IF last_end < Len(text)
         THEN <<SubSeq(text, last_end + 1, Len(text))>> ELSE <<>>
    ELSE LET start == Head(matches)[1]
             end == Head(matches)[2]
             before == IF start - 1 > last_end
                       THEN <<SubSeq(text, last_end + 1, start - 1)>>
                       ELSE <<>>
         IN  before \o <<SubSeq(text, start, end)>>
             \o TokensFrom(text, Tail(matches), end)

\* tokenize_czech_text keeping the words only.
tokenize_czech_text_WordsOnly(text) ==
    LET matches == WordMatches(text, 1)
    IN  [i \in 1..Len(matches) |->
            SubSeq(text, matches[i][1], matches[i][2])]

\* tokenize_czech_text(text)
tokenize_czech_text(text) ==
    IF text = <<>> THEN <<>> ELSE TokensFrom(text, WordMatches(text, 1), 0)

\* re.match(r'^[a-zA-Z...]+$', token) on a token of tokenize_czech_text.
IsWordToken(token) ==
    token # <<>> /\ \A i \in 1..Len(token) : IsWordChar(token[i])

\* ''.join(restored_tokens)
RECURSIVE Concat(_)
Concat(tokens) ==
    IF tokens = <<>> THEN <<>> ELSE Head(tokens) \o Concat(Tail(tokens))

\* DiacriticsRestorer.restore_text_diacritics(text)
restore_text_diacritics ==
    /\ instance = "DiacriticsRestorer"
    /\ pending # <<>>
    /\ Head(pending).op = "restore_text_diacritics"
    /\ \E text \in {Head(pending).token} :
         \E tokens \in {tokenize_czech_text(text)} :
           \E words \in {{i \in 1..Len(tokens) : IsWordToken(tokens[i])}} :
             \E reads \in {\E i \in words :
                               ~SkipsDictionary(overrides, tokens[i])} :
               /\ rdictionary' = IF reads
                                 THEN _load_morfflex_dictionary(rdictionary,
                                          loaded, dict_file, fault)
                                 ELSE rdictionary
               /\ loaded' = (loaded \/ reads)
               /\ \E restored_tokens \in {[i \in 1..Len(tokens) |->
                        IF i \in words
                        THEN RestoreWord(overrides, rdictionary', tokens[i])
                        ELSE tokens[i]]} :
                    /\ call' = [NoCall EXCEPT
                                  !.op = "restore_text_diacritics",
                                  !.token = text,
                                  !.result = Concat(restored_tokens),
                                  !.values = tokens,
                                  !.results = restored_tokens]
                    /\ hist' = [calls |-> hist.calls + 1,
                                direct |-> hist.direct,
                                tokens |-> hist.tokens + Cardinality(words),
                                changed |-> hist.changed + Cardinality(
                                    {i \in words :
                                        restored_tokens[i] # tokens[i]}),
                                reads |-> Bump(hist.reads, reads /\ ~loaded)]
    /\ pending' = Tail(pending)
    /\ UNCHANGED <<instance, dict_file, prefer_genpl_uu, dictionary, stats,
                   overrides, conv, fault>>

\* The characters of a text: letters, the space, a digit.
TextChars == {"k", "u", "K", " ", "1"}
Texts == SeqsUpTo(TextChars, MaxTextLen)

\* The lines a word list of DiacriticsRestorer is made of:
\* form <TAB> lemma <TAB> tag.
WordLinePool ==
    {<<kur, kur, <<"N", "N">> >>, <<Kua, Kua, <<"N", "N">> >>,
     <<ka, ka, <<"N", "N">> >>}

\* Its word lists: the first form of a list wins, so the order matters.
WordFiles ==
    UNION {Enumerations(S) : S \in {T \in SUBSET WordLinePool :
                                      Cardinality(T) <= MaxLines}}

\* The rows an overrides file is made of: stripped <TAB> diacritized.
OverrideRowPool == {<<ku, kua>>, <<KU, Kur>>, <<kur, kur>>}

OverrideFiles ==
    UNION {Enumerations(S) : S \in {T \in SUBSET OverrideRowPool :
                                      Cardinality(T) <= MaxRows}}

OneCallOfRestorer ==
    {<<RestoreReq(w)>> : w \in Tokens}
    \cup {<<AddOverrideReq(k, v)>> : k \in {ku, Kur}, v \in {kua}}

FewCallsOfRestorer ==
    SeqsUpTo({RestoreReq(ku), RestoreReq(KU),
              AddOverrideReq(ku, Kua), AddOverrideReq(Kur, kur)}, MaxCalls)

\* DiacriticsRestorer.__init__, and the program that uses the instance.
InitRestorer ==
    /\ instance = "DiacriticsRestorer"
    /\ \/ /\ pending \in OneCallOfRestorer
          /\ dict_file \in WordFiles
          /\ \E rows \in OverrideFiles : overrides = _load_overrides(rows, <<>>)
          /\ fault = <<>>
       \/ /\ pending \in FewCallsOfRestorer
          /\ dict_file \in {<<>>, << <<kur, kur, <<"N", "N">> >> >>,
                            << <<kur, kur, <<"N", "N">> >>,
                               <<ka, ka, <<"N", "N">> >> >>}
          /\ overrides = <<>>
          /\ fault \in {<<>>} \cup {<<n>> : n \in 0..Len(dict_file)}
       \/ /\ pending \in {<<RestoreTextReq(text)>> : text \in Texts}
          /\ dict_file \in {<<>>, << <<kur, kur, <<"N", "N">> >> >>,
                            << <<Kua, Kua, <<"N", "N">> >>,
                               <<ka, ka, <<"N", "N">> >> >>}
          /\ overrides \in {<<>>, ku :> kua, <<"k">> :> <<"k", "a", "1">>}
          /\ fault = <<>>
    /\ rdictionary = <<>>
    /\ loaded = FALSE
    /\ prefer_genpl_uu = TRUE
    /\ dictionary = [is_none |-> TRUE, groups |-> <<>>]
    /\ stats = [total_processed |-> 0, changed |-> 0, unchanged |-> 0,
                by_column |-> <<>>]
    /\ call = NoCall
    /\ hist = [calls |-> 0, direct |-> 0, tokens |-> 0, changed |-> 0,
            reads |-> 0]
    /\ conv = NoConv

Init == InitDiacritizer \/ InitRestorer \/ InitConverter

Next ==
    \/ diacritize_token
    \/ diacritize_column
    \/ restore_word_diacritics
    \/ restore_text_diacritics
    \/ add_override
    \/ detect_dbf_encoding
    \/ convert_dbf_to_dataframe
    \/ process_dbf_files

Spec == Init /\ [][Next]_vars

-----------------------------------------------------------------------------
(* What the claims speak of.                                               *)

\* The forms of the word list, as CzechDiacritizer and as DiacriticsRestorer
\* come to hold them.
FormsOfDiacritizer ==
    LET groups == ParseLines(dict_file, <<>>)
    IN  UNION {groups[b] : b \in DOMAIN groups}

FormsOfRestorer ==
    LET entries == ParseWordLines(dict_file, <<>>)
    IN  UNION {{entries[k][i] : i \in 1..Len(entries[k])} : k \in DOMAIN entries}

\* A form equals t without regard to case, or has t's diacritic-stripped
\* lowercase form.
Matches(forms, t) ==
    \E f \in forms :
       \/ Lower(f) = Lower(t)
       \/ _strip_diacritics(Lower(f)) = _strip_diacritics(Lower(t))

TokenCalled == call.op = "diacritize_token"
ColumnCalled == call.op = "diacritize_column"
RestoreCalled == call.op = "restore_word_diacritics"

\* The candidates of the token of the last diacritize_token call.
CallCandidates == CandidatesOf(dictionary.groups, call.token)

\* The string has no lowercase letter, no capital after its first
\* character, no capital at all.
AllUpper(s) == s = Upper(s)
Capitalized(s) == s = Capitalize(s)
AllLower(s) == s = Lower(s)

-----------------------------------------------------------------------------
(* C1.                                                                     *)

-----------------------------------------------------------------------------
(* C2.                                                                     *)

\* C2: when the diacritic-stripped lowercase form of the word is a key of the
\* overrides, restore_word_diacritics returns the override value with the
\* case of the word reapplied, and the call leaves the dictionary as it was:
\* not loaded if it was not.
C2_OverridePriority ==
    [][(/\ instance = "DiacriticsRestorer"
        /\ pending # <<>>
        /\ Head(pending).op = "restore_word_diacritics"
        /\ strip_diacritics(Lower(Head(pending).token)) \in DOMAIN overrides)
       => LET word == Head(pending).token
              value == overrides[strip_diacritics(Lower(word))]
          IN  /\ call'.result = IF IsUpper(word) THEN Upper(value)
                                ELSE IF IsTitle(word) THEN Capitalize(value)
                                ELSE value
              /\ rdictionary' = rdictionary
              /\ loaded' = loaded]_vars

\* A word answered from the overrides although the word list has a form for
\* it that would have given another answer; the dictionary is still unloaded.
C2_Witness ==
    /\ RestoreCalled
    /\ strip_diacritics(Lower(call.token)) \in DOMAIN overrides
    /\ call.result = ApplyCase(call.token,
                               overrides[strip_diacritics(Lower(call.token))])
    /\ ~loaded
    /\ LET entries == ParseWordLines(dict_file, <<>>)
           key == strip_diacritics(Lower(call.token))
       IN  /\ key \in DOMAIN entries
           /\ ApplyCase(call.token, entries[key][1]) # call.result

-----------------------------------------------------------------------------
(* C3.                                                                     *)

\* C3: whenever diacritize_token chose a candidate, an all-uppercase token
\* gives an all-uppercase result, a title-case token a result with a capital
\* first letter and the rest lowercase, an all-lowercase token an
\* all-lowercase result.
C3_CasePreserved ==
    (TokenCalled /\ call.listed # <<>>)
       => /\ IsUpper(call.token) => AllUpper(call.result)
          /\ (IsTitle(call.token) /\ ~IsUpper(call.token))
                => Capitalized(call.result)
          /\ IsLower(call.token) => AllLower(call.result)

-----------------------------------------------------------------------------
(* C4.                                                                     *)

\* C4: whenever restore_word_diacritics restored the word from the overrides
\* or from the dictionary, an all-uppercase word gives the restored form in
\* uppercase, a title-case word gives it capitalized, an all-lowercase word
\* gives it in lowercase.
C4_RestorerCasePreserved ==
    (/\ RestoreCalled
     /\ Strip(call.token) # <<>>
     /\ \/ strip_diacritics(Lower(call.token)) \in DOMAIN overrides
        \/ strip_diacritics(Lower(call.token)) \in DOMAIN rdictionary)
       => /\ IsUpper(call.token) => AllUpper(call.result)
          /\ (IsTitle(call.token) /\ ~IsUpper(call.token))
                => Capitalized(call.result)
          /\ IsLower(call.token) => AllLower(call.result)

-----------------------------------------------------------------------------
(* C5.                                                                     *)

\* The token with its last letter u replaced by u with ring above.
WithRing(token) == [token EXCEPT ![Len(token)] = "ur"]

\* The token ends in u and both it and its form in u with ring above are
\* candidates.
HasBothEndings(groups, token) ==
    /\ EndsWith(token, "u")
    /\ token \in CandidatesOf(groups, token)
    /\ WithRing(token) \in CandidatesOf(groups, token)

\* C5: with prefer_genpl_uu and the column PAD2, a token in u whose
\* candidates hold the token and its form in u with ring above is returned
\* as that form, by diacritize_token and for each such value of
\* diacritize_column.
C5_Pad2PrefersRing ==
    /\ (/\ TokenCalled
        /\ prefer_genpl_uu
        /\ call.column = "PAD2"
        /\ HasBothEndings(dictionary.groups, call.token))
          => call.result = WithRing(call.token)
    /\ (/\ ColumnCalled
        /\ prefer_genpl_uu
        /\ call.column = "PAD2")
          => \A i \in 1..Len(call.values) :
                (/\ call.values[i].kind = "str"
                 /\ HasBothEndings(dictionary.groups, call.values[i].s))
                   => call.results[i] = Str(WithRing(call.values[i].s))

-----------------------------------------------------------------------------
(* C6.                                                                     *)

\* C6: in a column that is not PAD2, diacritize_token returns what it would
\* return with the other value of prefer_genpl_uu, and every candidate has
\* the same score with the preference as without it.
C6_FlagIdleOutsidePad2 ==
    (TokenCalled /\ ~IsPad2(call.column))
       => /\ call.result =
                TokenRun(dictionary.groups, ~prefer_genpl_uu, call.token,
                         call.column, call.listed).result
          /\ \A i \in 1..Len(call.listed) :
                _score_candidate(Strip(call.token), call.listed[i],
                                 IsPad2(call.column), TRUE)
                = _score_candidate(Strip(call.token), call.listed[i],
                                   IsPad2(call.column), FALSE)

\* A call outside PAD2 on a token in u that has a candidate in u and one in
\* u with ring above: in PAD2 the preference would tell them apart.
C6_Witness ==
    /\ TokenCalled
    /\ prefer_genpl_uu
    /\ ~IsPad2(call.column)
    /\ \E i, j \in 1..Len(call.listed) :
          /\ EndsWith(call.listed[i], "u")
          /\ EndsWith(call.listed[j], "ur")
    /\ call.result = call.token

-----------------------------------------------------------------------------
(* C7.                                                                     *)

\* C7: what diacritize_token returns, and the ranking of the candidates,
\* are the same for every order in which the candidate set is enumerated.
C7_OrderIndependent ==
    TokenCalled
       => \A other \in Enumerations(CallCandidates) :
             /\ TokenRun(dictionary.groups, prefer_genpl_uu, call.token,
                         call.column, other).result = call.result
             /\ SortByScore(other, Strip(call.token), IsPad2(call.column),
                            prefer_genpl_uu)
                = SortByScore(call.listed, Strip(call.token),
                              IsPad2(call.column), prefer_genpl_uu)

-----------------------------------------------------------------------------
(* C8.                                                                     *)

\* C8: after N token restorations of which K returned something else than
\* they were given, total_processed is N, changed is K, unchanged is N - K.
C8_StatisticsTotals ==
    instance = "CzechDiacritizer"
       => /\ stats.total_processed = hist.tokens
          /\ stats.changed = hist.changed
          /\ stats.unchanged = hist.tokens - hist.changed

-----------------------------------------------------------------------------
(* C9.                                                                     *)

RECURSIVE SumOfTotals(_, _)
SumOfTotals(by_column, columns) ==
    IF columns = {} THEN 0
    ELSE LET c == CHOOSE x \in columns : TRUE
         IN  by_column[c].total + SumOfTotals(by_column, columns \ {c})

\* C9: after diacritize_column calls alone, the totals of the entries of
\* by_column add up to total_processed.
C9_ColumnTotalsAddUp ==
    (instance = "CzechDiacritizer" /\ hist.direct = 0)
       => SumOfTotals(stats.by_column, DOMAIN stats.by_column)
          = stats.total_processed

-----------------------------------------------------------------------------
(* C10.                                                                    *)

\* C10: no call lowers total_processed, changed, unchanged, or the total or
\* the changed of an entry of by_column that is there.
C10_CountersNeverDecrease ==
    [][/\ stats'.total_processed >= stats.total_processed
       /\ stats'.changed >= stats.changed
       /\ stats'.unchanged >= stats.unchanged
       /\ \A c \in DOMAIN stats.by_column :
             /\ c \in DOMAIN stats'.by_column
             /\ stats'.by_column[c].total >= stats.by_column[c].total
             /\ stats'.by_column[c].changed >= stats.by_column[c].changed]_vars

-----------------------------------------------------------------------------
(* The detector claims speak of the call of detect_dbf_encoding made.      *)

Detected ==
    /\ instance = "Converter"
    /\ conv.pc # "detect"
    /\ conv.run = NoRun
    /\ conv.best.method # "manual_override"

\* The candidate list of the call, and for a candidate whether it decoded
\* and the score it has: 0 when there was no text to score.
CallTried == TriedOrder(conv.file, conv.chardet)

Valid(encoding) == ~Raises(conv.file, encoding, Fetched(conv.file.records))

ScoreOf(encoding) ==
    score_czech_encoding(Join(SampleTexts(encoding, conv.file.records)))

SameScore(a, b) == a.num * b.den = b.num * a.den

\* Position i of the candidate list is the stable argmax: it decoded, no
\* candidate that decoded has a greater score, and none before it that
\* decoded has the same score.
StableArgmax(i) ==
    /\ Valid(CallTried[i])
    /\ \A j \in 1..Len(CallTried) :
          Valid(CallTried[j])
             => ~ScoreGreater(ScoreOf(CallTried[j]), ScoreOf(CallTried[i]))
    /\ \A j \in 1..(i - 1) :
          Valid(CallTried[j])
             => ~SameScore(ScoreOf(CallTried[j]), ScoreOf(CallTried[i]))

-----------------------------------------------------------------------------
(* C11.                                                                    *)

\* C11: when some candidate decoded, detect_dbf_encoding returns the
\* candidate of the greatest score, and of those the earliest in the
\* candidate list as it is after chardet put a candidate at its front.
C11_StableArgmax ==
    (Detected /\ \E i \in 1..Len(CallTried) : Valid(CallTried[i]))
       => \E i \in 1..Len(CallTried) :
             /\ StableArgmax(i)
             /\ conv.best.encoding = CallTried[i]

-----------------------------------------------------------------------------
(* C12.                                                                    *)

\* C12: when no candidate decodes, detect_dbf_encoding returns cp852 with
\* the method fallback.
C12_FallbackWhenNoneDecodes ==
    (Detected /\ \A i \in 1..Len(CallTried) : ~Valid(CallTried[i]))
       => /\ conv.best.encoding = "cp852"
          /\ conv.best.method = "fallback"

\* The call was made on a file that no candidate decodes, and returned.
C12_Witness ==
    /\ Detected
    /\ \A i \in 1..Len(CallTried) : ~Valid(CallTried[i])
    /\ conv.best.encoding = "cp852"
    /\ conv.best.method = "fallback"
    /\ conv.best.score.num = 0

-----------------------------------------------------------------------------
(* C13.                                                                    *)

\* C13: when the file has no record, or its sampled records have no string
\* that is not empty, detect_dbf_encoding returns the first candidate of the
\* candidate list in the order it tried them.
C13_NoSampleFirstCandidate ==
    (/\ Detected
     /\ conv.file.readable
     /\ \A i \in 1..Len(CallTried) :
           Valid(CallTried[i])
           /\ SampleTexts(CallTried[i], conv.file.records) = <<>>)
       => conv.best.encoding = CallTried[1]

-----------------------------------------------------------------------------
(* C15.                                                                    *)

\* Decoding with errors='replace': an undecodable byte becomes the
\* replacement character, "rep".
decode_replace(encoding, field) ==
    [i \in 1..Len(field) |->
        IF decode_byte(encoding, field[i]) = "invalid" THEN "rep"
        ELSE decode_byte(encoding, field[i])]

\* C15: convert_dbf_to_dataframe decodes the whole file with the replacement
\* policy: on a file that can be read it returns the frame of all records,
\* an undecodable byte in it as the replacement character.
C15_BulkDecodeReplaces ==
    (/\ instance = "Converter"
     /\ conv.pc = "done"
     /\ conv.file.readable)
       => /\ conv.frame.kind = "frame"
          /\ conv.frame.rows =
                [i \in 1..Len(conv.file.records) |->
                    decode_replace(conv.best.encoding, conv.file.records[i])]

-----------------------------------------------------------------------------
(* C16.                                                                    *)

\* The token of the last diacritize_token call has no whitespace around it
\* and is, without regard to case, a form of the dictionary.
TokenIsForm ==
    /\ TokenCalled
    /\ call.token # <<>>
    /\ Strip(call.token) = call.token
    /\ \E f \in FormsOfDiacritizer : Lower(f) = Lower(call.token)

\* C16 as claimed: a token that is a dictionary form is returned as it was
\* given when the column is not PAD2, or prefer_genpl_uu is off, or the token
\* does not end in the letter u.
C16_FormUnchanged_AsClaimed ==
    (/\ TokenIsForm
     /\ \/ ~IsPad2(call.column)
        \/ ~prefer_genpl_uu
        \/ ~EndsWith(call.token, "u"))
       => call.result = call.token

\* C16 amended: the same, with the ending of the token taken without regard
\* to case: it ends neither in u nor in U.
C16_FormUnchanged ==
    (/\ TokenIsForm
     /\ \/ ~IsPad2(call.column)
        \/ ~prefer_genpl_uu
        \/ ~EndsWith(Lower(call.token), "u"))
       => call.result = call.token

\* A token that is a form came back as given although its group has another
\* form with the same letters, diacritics apart.
C16_Witness ==
    /\ TokenIsForm
    /\ \/ ~IsPad2(call.column)
       \/ ~prefer_genpl_uu
       \/ ~EndsWith(Lower(call.token), "u")
    /\ \E i \in 1..Len(call.listed) :
          /\ Lower(call.listed[i]) # Lower(call.token)
          /\ _strip_diacritics(Lower(call.listed[i]))
             = _strip_diacritics(Lower(call.token))
    /\ call.result = call.token

-----------------------------------------------------------------------------
(* C17.                                                                    *)

\* C17: diacritize_column returns a list as long as values, element i what
\* diacritize_token returns for values[i] when that is a string and
\* values[i] itself otherwise; it sets by_column[c] to the length of values
\* and the number of elements returned changed, leaves the other entries of
\* by_column alone, and adds the length of values to total_processed.
C17_ColumnBatch ==
    [][(/\ instance = "CzechDiacritizer"
        /\ pending # <<>>
        /\ Head(pending).op = "diacritize_column")
       => LET values == Head(pending).values
              c == Head(pending).column
              out == call'.results
              groups == dictionary'.groups
          IN  /\ Len(out) = Len(values)
              /\ \A i \in 1..Len(values) :
                    IF values[i].kind = "str"
                    THEN \E listed \in
                            Enumerations(CandidatesOf(groups, values[i].s)) :
                            out[i] = Str(TokenRun(groups, prefer_genpl_uu,
                                           values[i].s, c, listed).result)
                    ELSE out[i] = values[i]
              /\ DOMAIN stats'.by_column = DOMAIN stats.by_column \cup {c}
              /\ stats'.by_column[c] =
                    [total |-> Len(values),
                     changed |-> Cardinality({i \in 1..Len(values) :
                                                 out[i] # values[i]})]
              /\ \A other \in DOMAIN stats.by_column \ {c} :
                    stats'.by_column[other] = stats.by_column[other]
              /\ stats'.total_processed
                    = stats.total_processed + Len(values)]_vars

\* The second call for a column, on two values: a string that came back
\* changed and a value that is not a string.
C17_Witness ==
    /\ ColumnCalled
    /\ hist.calls = 2
    /\ Len(call.values) = 2
    /\ call.values[2].kind # "str"
    /\ call.results[2] = call.values[2]
    /\ call.results[1] # call.values[1]
    /\ stats.by_column[call.column] = [total |-> 2, changed |-> 1]
    /\ stats.total_processed > 2

-----------------------------------------------------------------------------
(* C18.                                                                    *)

\* The next call needs the dictionary: it is a restoration of a token that
\* is not blank and, for DiacriticsRestorer, has no override.
NextNeedsDictionary ==
    /\ pending # <<>>
    /\ LET req == Head(pending)
       IN  \/ /\ req.op = "diacritize_token"
              /\ Strip(req.token) # <<>>
           \/ /\ req.op = "diacritize_column"
              /\ \E i \in 1..Len(req.values) :
                    /\ req.values[i].kind = "str"
                    /\ Strip(req.values[i].s) # <<>>
           \/ /\ req.op = "restore_word_diacritics"
              /\ Strip(req.token) # <<>>
              /\ strip_diacritics(Lower(req.token)) \notin DOMAIN overrides
           \/ /\ req.op = "restore_text_diacritics"
              /\ \E i \in 1..Len(tokenize_czech_text(req.token)) :
                    LET word == tokenize_czech_text(req.token)[i]
                    IN  /\ IsWordToken(word)
                        /\ strip_diacritics(Lower(word))
                              \notin DOMAIN overrides

\* C18: the word list is read at most once, by the first call that needs
\* the dictionary, and once a load was made, failed or empty as it may be,
\* no call changes the dictionary.
C18_LoadedOnce ==
    [][/\ hist'.reads <= 1
       /\ (hist.reads = 0 /\ NextNeedsDictionary) => hist'.reads = 1
       /\ (hist.reads = 0 /\ ~NextNeedsDictionary) => hist'.reads = 0
       /\ ~dictionary.is_none => dictionary' = dictionary
       /\ loaded => (loaded' /\ rdictionary' = rdictionary)]_vars

\* Two restorations that both need the dictionary were made after a load
\* that failed: the word list was read once.
C18_Witness ==
    /\ instance = "CzechDiacritizer"
    /\ fault # <<>>
    /\ hist.calls = 2
    /\ hist.direct = 2
    /\ stats.changed + stats.unchanged = 2
    /\ ~dictionary.is_none
    /\ hist.reads = 1

-----------------------------------------------------------------------------
(* C19.                                                                    *)

\* C19: after a load that failed part-way the instance holds no dictionary
\* entries, and a restoration returns the token as given unless an override
\* applies.
C19_FailedLoadLeavesNoEntries ==
    (fault # <<>> /\ hist.reads = 1)
       => /\ instance = "CzechDiacritizer" => dictionary.groups = <<>>
          /\ instance = "DiacriticsRestorer" => rdictionary = <<>>
          /\ TokenCalled => call.result = call.token
          /\ (/\ RestoreCalled
              /\ strip_diacritics(Lower(call.token)) \notin DOMAIN overrides)
                => call.result = call.token

-----------------------------------------------------------------------------
(* C20.                                                                    *)

\* C20: every key of the overrides is diacritic-stripped and lowercase, and
\* a word whose diacritic-stripped lowercase form is that of a key is
\* restored to the value of such a key, with the case reapplied.
C20_OverrideKeysNormalised ==
    instance = "DiacriticsRestorer"
       => /\ \A k \in DOMAIN overrides : k = strip_diacritics(Lower(k))
          /\ (RestoreCalled /\ Strip(call.token) # <<>>)
                => \A k \in DOMAIN overrides :
                      strip_diacritics(Lower(k))
                         = strip_diacritics(Lower(call.token))
                      => \E k2 \in DOMAIN overrides :
                            /\ strip_diacritics(Lower(k2))
                                  = strip_diacritics(Lower(call.token))
                            /\ call.result
                                  = ApplyCase(call.token, overrides[k2])

-----------------------------------------------------------------------------
(* C21.  The exact pass of the candidate search.                           *)

\* The base form that the line names, if the line adds to the dictionary:
\* a set of one base form, or of none.
BaseOfLine(rawline) ==
    LET parts == StripLine(rawline)
    IN  IF Len(parts) < 2 THEN {} ELSE {Strip(parts[2])}

\* The first line of the word list that names the group: the dictionary
\* is scanned in the order in which its groups were first named.
FirstLineOf(file, base_form) ==
    CHOOSE i \in 1..Len(file) :
       /\ BaseOfLine(file[i]) = {base_form}
       /\ \A j \in 1..(i - 1) : BaseOfLine(file[j]) # {base_form}

\* The groups that hold a form equal to the token without regard to case.
ExactGroups(groups, token) ==
    {g \in DOMAIN groups :
        \E variant \in groups[g] : Lower(token) = Lower(variant)}

\* C21: when the token of a diacritize_token call equals, without regard to
\* case, a form of some group of the dictionary, the candidates that
\* _find_candidates returns are exactly the forms of the first such group in
\* scan order, and no form of a later group.
C21_ExactPassFirstGroupOnly ==
    (TokenCalled /\ NeedsDictionary(call.token)) =>
        LET groups == dictionary.groups
            matching == ExactGroups(groups, Strip(call.token))
        IN  matching # {} =>
              \E g \in matching :
                 /\ \A h \in matching :
                       FirstLineOf(dict_file, g) <= FirstLineOf(dict_file, h)
                 /\ {call.listed[i] : i \in 1..Len(call.listed)} = groups[g]

-----------------------------------------------------------------------------
(* C22.  The chosen form has the least score tuple.                        *)

\* The tuple (a, b, c, d) of a candidate for a token in a column.
TupleOf(token, candidate, column_name, prefer) ==
    LET t == _strip_diacritics(Lower(token))
        c == _strip_diacritics(Lower(candidate))
    IN  << IF CommonSuffixLen(t, c) >= Min(3, Len(t)) THEN 0 ELSE 1,
           IF IsPad2(column_name) /\ prefer /\ EndsWith(candidate, "u")
              THEN 1 ELSE 0,
           Len(token) - CommonSuffixLen(Lower(token), Lower(candidate)),
           Abs(Len(token) - Len(candidate)) >>

\* The tuple of the i-th enumerated candidate of the last call.
CallTuple(i) ==
    TupleOf(Strip(call.token), call.listed[i], call.column, prefer_genpl_uu)

\* C22: the form chosen by diacritize_token, before the case of the token
\* is put on it, is a candidate whose tuple (a, b, c, d) is less than or
\* equal to the tuple of every other candidate in lexicographic order.
C22_ChosenIsLeastTuple ==
    (TokenCalled /\ call.listed # <<>>) =>
        \E i \in 1..Len(call.listed) :
           /\ call.result = _preserve_case(Strip(call.token), call.listed[i])
           /\ \A j \in 1..Len(call.listed) :
                 ~TupleLess(CallTuple(j), CallTuple(i))

\* A call whose first enumerated candidate is not the least, on a
\* dictionary whose candidates differ in the first and in the third entry
\* of the tuple.
C22_Witness ==
    /\ TokenCalled
    /\ Len(call.listed) >= 3
    /\ \E j \in 2..Len(call.listed) : TupleLess(CallTuple(j), CallTuple(1))
    /\ \E i, j \in 1..Len(call.listed) :
          CallTuple(i)[1] # CallTuple(j)[1]
    /\ call.result # Strip(call.token)

-----------------------------------------------------------------------------
(* C23.  The score of a candidate encoding.                                *)

\* 2 * (Czech-diacritic characters) - 3 * (mojibake characters), counted
\* over the string fields of the sampled records as the encoding decodes
\* them.
IntegerScore(encoding) ==
    LET text == Join(SampleTexts(encoding, conv.file.records))
    IN  2 * CountOf(text, "cz") - 3 * CountOf(text, "mj")

\* C23: the score of a candidate that decodes is the integer
\* 2 * czech - 3 * mojibake over the sampled fields, so the score that
\* detect_dbf_encoding returns with a scored encoding is that integer, and
\* of two candidates that decode, the one with the smaller integer is not
\* the one returned.
C23_IntegerScore ==
    Detected =>
        /\ conv.best.method = "czech_scoring" =>
              conv.best.score.num
                  = IntegerScore(conv.best.encoding) * conv.best.score.den
        /\ \A i, j \in 1..Len(CallTried) :
              (/\ Valid(CallTried[i])
               /\ Valid(CallTried[j])
               /\ IntegerScore(CallTried[i]) > IntegerScore(CallTried[j]))
                  => conv.best.encoding # CallTried[j]

\* The second part of C23 alone: of two candidates that decode, the one
\* with the smaller integer is not the one returned.
C23_LargerIntegerPreferred ==
    Detected =>
        \A i, j \in 1..Len(CallTried) :
           (/\ Valid(CallTried[i])
            /\ Valid(CallTried[j])
            /\ IntegerScore(CallTried[i]) > IntegerScore(CallTried[j]))
               => conv.best.encoding # CallTried[j]

-----------------------------------------------------------------------------
(* C24.  A candidate that does not decode.                                 *)

\* C24: whenever at least one candidate encoding decodes the sample, the
\* encoding that detect_dbf_encoding returns is one that decoded, and every
\* candidate that decodes was tried, also after a candidate that did not:
\* none of them has a score above the score returned.
C24_FailedNeverChosen ==
    (Detected /\ \E i \in 1..Len(CallTried) : Valid(CallTried[i])) =>
        /\ Valid(conv.best.encoding)
        /\ \A i \in 1..Len(CallTried) :
              Valid(CallTried[i])
                 => ~ScoreGreater(ScoreOf(CallTried[i]), conv.best.score)

\* A call in which a candidate does not decode and a candidate after it
\* is the one returned.
C24_Witness ==
    /\ Detected
    /\ conv.best.method = "czech_scoring"
    /\ \E i, j \in 1..Len(CallTried) :
          /\ i < j
          /\ ~Valid(CallTried[i])
          /\ CallTried[j] = conv.best.encoding
          /\ \A k \in 1..(j - 1) : CallTried[k] # conv.best.encoding

-----------------------------------------------------------------------------
(* C25.  Tokenization of a text.                                           *)

TextCalled == call.op = "restore_text_diacritics"

\* A word token: letters only.  A non-word token: no letter.
WordSegment(token) ==
    token # <<>> /\ \A i \in 1..Len(token) : IsWordChar(token[i])
NonWordSegment(token) ==
    token # <<>> /\ \A i \in 1..Len(token) : ~IsWordChar(token[i])

\* C25: concatenating the tokens of tokenize_czech_text gives back the
\* text, word tokens and non-word tokens alternate, and
\* restore_text_diacritics returns the text with every non-word segment
\* unchanged and at its place among the tokens.
C25_TokenizationRoundTrip ==
    TextCalled =>
        LET tokens == call.values
            restored == call.results
        IN  /\ Concat(tokens) = call.token
            /\ \A i \in 1..Len(tokens) :
                  WordSegment(tokens[i]) \/ NonWordSegment(tokens[i])
            /\ \A i \in 1..(Len(tokens) - 1) :
                  WordSegment(tokens[i]) # WordSegment(tokens[i + 1])
            /\ Len(restored) = Len(tokens)
            /\ \A i \in 1..Len(tokens) :
                  NonWordSegment(tokens[i]) => restored[i] = tokens[i]
            /\ call.result = Concat(restored)

\* A text of a word, a non-word segment and a word, whose first word is
\* restored to a form of another length.
C25_Witness ==
    /\ TextCalled
    /\ Len(call.values) = 3
    /\ WordSegment(call.values[1])
    /\ NonWordSegment(call.values[2])
    /\ Len(call.results[1]) # Len(call.values[1])
    /\ call.results[3] # call.values[3]

-----------------------------------------------------------------------------
(* C26.  Malformed lines of the word list.                                 *)

\* The line has a tab, a form and a group key that are not empty.
WellFormed(rawline) ==
    /\ Len(rawline) >= 2
    /\ Strip(rawline[1]) # <<>>
    /\ Strip(rawline[2]) # <<>>

\* The well-formed lines of the word list, in order.
WellFormedLines(file) == SelectSeq(file, WellFormed)

\* C26: the dictionary loaded from a word list is the dictionary of its
\* well-formed lines: a line without a tab, with an empty form or with an
\* empty group key adds nothing, so no group has the empty key and no form
\* is empty, and the lines before and after such a line are loaded.
C26_MalformedLinesSkipped ==
    /\ (instance = "CzechDiacritizer" /\ ~dictionary.is_none /\ fault = <<>>)
          => /\ <<>> \notin DOMAIN dictionary.groups
             /\ \A g \in DOMAIN dictionary.groups :
                   <<>> \notin dictionary.groups[g]
             /\ dictionary.groups
                   = ParseLines(WellFormedLines(dict_file), <<>>)
    /\ (instance = "DiacriticsRestorer" /\ loaded /\ fault = <<>>)
          => /\ <<>> \notin DOMAIN rdictionary
             /\ \A k \in DOMAIN rdictionary :
                   \A i \in 1..Len(rdictionary[k]) : rdictionary[k][i] # <<>>
             /\ rdictionary
                   = ParseWordLines(WellFormedLines(dict_file), <<>>)

-----------------------------------------------------------------------------
(* C27.  The row cap of detect_dbf_encoding.                               *)

\* The file cut to its first sample_size records.
CappedFile(file) == [file EXCEPT !.records = Sampled(file.records)]

\* C27: the records after the first sample_size never influence what
\* detect_dbf_encoding returns: it returns for the file what it returns for
\* the file cut to its first sample_size records.
C27_RowCap ==
    Detected =>
        conv.best = DetectRun(CappedFile(conv.file), conv.chardet)

-----------------------------------------------------------------------------
(* C28.  What restoration changes.                                         *)

\* The diacritic-stripped lowercase form.
BaseLetters(s) == _strip_diacritics(Lower(s))

\* C28 on every token: the result of diacritize_token has the
\* diacritic-stripped lowercase form of the whitespace-trimmed token, and so
\* its length and its base letters.
C28_OnlyDiacriticsAndCase ==
    TokenCalled =>
        BaseLetters(call.result) = BaseLetters(Strip(call.token))

\* C28 on the tokens that have a candidate, where the result carries no
\* whitespace of the token: the result of diacritize_token has the
\* diacritic-stripped lowercase form of the trimmed token.
C28_SameBaseLetters ==
    (TokenCalled /\ call.listed # <<>>) =>
        BaseLetters(call.result) = BaseLetters(Strip(call.token))

-----------------------------------------------------------------------------
(* C29.  Restoring a restored token.                                       *)

\* What a second call of diacritize_token returns on the result of the
\* last call, in the same column, for each order in which the candidates
\* of the second call can be enumerated.
SecondResults ==
    {TokenRun(dictionary.groups, prefer_genpl_uu, call.result, call.column,
              listed).result :
        listed \in Enumerations(CandidatesOf(dictionary.groups, call.result))}

\* C29: diacritize_token applied to its own result, in the same column and
\* on the same dictionary, returns that result.
C29_Idempotent ==
    TokenCalled => SecondResults = {call.result}

-----------------------------------------------------------------------------
(* C30.  Per-file isolation in process_dbf_files.                          *)

\* process_dbf_files has ended, by a return or by an exception.
Processed ==
    /\ instance = "Converter"
    /\ conv.pc = "done"
    /\ conv.run.outcome # "none"

\* C30: when process_dbf_files has ended on a ZIP archive, every DBF file
\* of the archive was processed, whether or not the conversion of another
\* one failed, the summary is returned with an entry for every DBF name,
\* which is the forced encoding, not a detected one, when force_encoding is
\* given, and on every exit path the temporary directory is gone.
C30_PerFileIsolation ==
    Processed =>
        /\ ~conv.run.temp_dir
        /\ conv.run.is_zip =>
              /\ Len(conv.run.entries) = Len(conv.run.archive)
              /\ conv.run.outcome = "returned"
              /\ Len(conv.run.summary) = Len(conv.run.archive)
              /\ conv.run.force_encoding # "" =>
                    \A i \in 1..Len(conv.run.summary) :
                       /\ conv.run.summary[i].encoding
                             = conv.run.force_encoding
                       /\ conv.run.summary[i].detection_method
                             = "manual_override"

\* C30 without the returned summary: every DBF file of the archive was
\* processed and the temporary directory is gone on every exit path.
C30_AllProcessedAndCleaned ==
    Processed =>
        /\ ~conv.run.temp_dir
        /\ conv.run.is_zip =>
              Len(conv.run.entries) = Len(conv.run.archive)

====
